---- MODULE Spec2Model ----
(***************************************************************************)
(* The boson rendering pipeline of voxelphile: the vertex stage's unpack   *)
(* (src/graphics/boson/uber.glsl) and the compute post-process stages      *)
(* SSAO, blur and composite.                                               *)
(*                                                                         *)
(* Numbers.  A GLSL float is modelled by an exact rational <<n, d>> in     *)
(* lowest terms with d >= 0; d = 0 gives the IEEE specials: <<1,0>> is     *)
(* +Inf, <<-1,0>> is -Inf and <<0,0>> is NaN.  Rounding is not modelled.   *)
(* A GLSL uint is modelled by its 32 bits, bit 0 the least significant.    *)
(***************************************************************************)
EXTENDS Integers, Sequences, FiniteSets, TLC

\* ------------------------------------------------------------------------
\* Exact rational arithmetic standing for float arithmetic
\* ------------------------------------------------------------------------

Abs(n) == IF n < 0 THEN -n ELSE n

Sign(n) == IF n < 0 THEN -1 ELSE IF n > 0 THEN 1 ELSE 0

RECURSIVE Gcd(_, _)
Gcd(a, b) == IF b = 0 THEN a ELSE Gcd(b, a % b)

\* The float n/d (d may be negative or zero on entry).
R(n, d) ==
    IF d = 0 THEN <<Sign(n), 0>>
    ELSE LET s == IF d < 0 THEN -1 ELSE 1
             g == Gcd(Abs(n), Abs(d))
         IN  <<(s * n) \div g, Abs(d) \div g>>

F(n) == <<n, 1>>

NaN == <<0, 0>>

IsNaN(a) == a[1] = 0 /\ a[2] = 0

IsFinite(a) == a[2] # 0

RNeg(a) == <<-a[1], a[2]>>

RAdd(a, b) ==
    IF a[2] = 0 \/ b[2] = 0
    THEN IF IsNaN(a) \/ IsNaN(b) THEN NaN
         ELSE IF a[2] = 0 /\ b[2] = 0 THEN (IF a = b THEN a ELSE NaN)
         ELSE IF a[2] = 0 THEN a ELSE b
    ELSE IF a[1] = 0 THEN b
    ELSE IF b[1] = 0 THEN a
    ELSE IF a[2] = 1 /\ b[2] = 1 THEN <<a[1] + b[1], 1>>
    ELSE LET g == Gcd(a[2], b[2])
         IN  R(a[1] * (b[2] \div g) + b[1] * (a[2] \div g), (a[2] \div g) * b[2])

RSub(a, b) == RAdd(a, RNeg(b))

RMul(a, b) ==
    IF a[2] = 0 \/ b[2] = 0 THEN <<Sign(a[1]) * Sign(b[1]), 0>>
    ELSE IF a[1] = 0 \/ b[1] = 0 THEN <<0, 1>>
    ELSE IF a[2] = 1 /\ b[2] = 1 THEN <<a[1] * b[1], 1>>
    ELSE LET g1 == Gcd(Abs(a[1]), b[2])
             g2 == Gcd(Abs(b[1]), a[2])
         IN  <<(a[1] \div g1) * (b[1] \div g2), (a[2] \div g2) * (b[2] \div g1)>>

\* a / b; x/0 is the signed infinity for x # 0 and NaN for x = 0.
RDiv(a, b) ==
    IF IsNaN(a) \/ IsNaN(b) THEN NaN
    ELSE IF b[2] = 0 THEN (IF a[2] = 0 THEN NaN ELSE F(0))
    ELSE IF b[1] = 0 THEN <<Sign(a[1]), 0>>
    ELSE IF a[2] = 0 THEN <<a[1] * Sign(b[1]), 0>>
    ELSE RMul(a, <<Sign(b[1]) * b[2], Abs(b[1])>>)

\* Comparisons; every comparison with NaN is false.
RLt(a, b) ==
    /\ ~IsNaN(a)
    /\ ~IsNaN(b)
    /\ IF a[2] = 0 /\ b[2] = 0 THEN a[1] < b[1]
       ELSE IF a[2] = 0 THEN a[1] < 0
       ELSE IF b[2] = 0 THEN b[1] > 0
       ELSE LET g == Gcd(a[2], b[2])
            IN  a[1] * (b[2] \div g) < b[1] * (a[2] \div g)

RLe(a, b) == ~IsNaN(a) /\ ~IsNaN(b) /\ ~RLt(b, a)

RGt(a, b) == RLt(b, a)

RAbs(a) == <<Abs(a[1]), a[2]>>

\* int(float): truncation toward zero (defined for finite values).
FloatToInt(a) == Sign(a[1]) * (Abs(a[1]) \div a[2])

\* ------------------------------------------------------------------------
\* GLSL vectors (tuples of floats), matrices (tuples of columns), built-ins
\* ------------------------------------------------------------------------

VAdd(u, v) == [i \in DOMAIN u |-> RAdd(u[i], v[i])]

VSub(u, v) == [i \in DOMAIN u |-> RSub(u[i], v[i])]

VNeg(u) == [i \in DOMAIN u |-> RNeg(u[i])]

VScale(u, s) == [i \in DOMAIN u |-> RMul(u[i], s)]

VDivS(u, s) == [i \in DOMAIN u |-> RDiv(u[i], s)]

\* dot(u, v)
Dot(u, v) ==
    LET acc[i \in 0..Len(u)] ==
            IF i = 0 THEN F(0) ELSE RAdd(acc[i - 1], RMul(u[i], v[i]))
    IN  acc[Len(u)]

\* cross(u, v)
Cross(u, v) ==
    << RSub(RMul(u[2], v[3]), RMul(v[2], u[3])),
       RSub(RMul(u[3], v[1]), RMul(v[3], u[1])),
       RSub(RMul(u[1], v[2]), RMul(v[1], u[2])) >>

Xyz(v) == <<v[1], v[2], v[3]>>

Vec4(v, w) == <<v[1], v[2], v[3], w>>

\* M * v for a matrix given by its columns.
MatVec(M, v) ==
    LET acc[j \in 1..Len(v)] ==
            IF j = 1 THEN VScale(M[1], v[1]) ELSE VAdd(acc[j - 1], VScale(M[j], v[j]))
    IN  acc[Len(v)]

RECURSIVE ISqrtFrom(_, _)
ISqrtFrom(n, r) == IF (r + 1) * (r + 1) > n THEN r ELSE ISqrtFrom(n, r + 1)

\* The integer part of the square root of n >= 0.
ISqrt(n) == ISqrtFrom(n, 0)

\* sqrt(a): exact where the root is rational, else rounded down to 1/32.
RSqrt(a) ==
    IF IsNaN(a) \/ a[1] < 0 THEN NaN
    ELSE IF a[2] = 0 THEN a
    ELSE LET rn == ISqrt(a[1])
             rd == ISqrt(a[2])
         IN  IF rn * rn = a[1] /\ rd * rd = a[2] THEN R(rn, rd)
             ELSE R(ISqrt((a[1] * 1024) \div a[2]), 32)

\* normalize(v) = v / length(v)
Normalize(v) == VDivS(v, RSqrt(Dot(v, v)))

\* clamp(x, lo, hi) = min(max(x, lo), hi)
Clamp(x, lo, hi) ==
    LET m == IF RLt(x, lo) THEN lo ELSE x
    IN  IF RLt(hi, m) THEN hi ELSE m

\* smoothstep(e0, e1, x): t = clamp((x - e0) / (e1 - e0), 0, 1); t * t * (3 - 2 * t)
\* A mutation of it: t is not clamped.
SmoothstepUnclamped(e0, e1, x) ==
    LET t == RDiv(RSub(x, e0), RSub(e1, e0))
    IN  RMul(RMul(t, t), RSub(F(3), RMul(F(2), t)))

Smoothstep(e0, e1, x) ==
    LET t == Clamp(RDiv(RSub(x, e0), RSub(e1, e0)), F(0), F(1))
    IN  RMul(RMul(t, t), RSub(F(3), RMul(F(2), t)))

\* ------------------------------------------------------------------------
\* 32-bit unsigned words
\* ------------------------------------------------------------------------

Pow2(k) == 2 ^ k

\* The uint whose value is n, for 0 <= n < 2^31.
Lit(n) == [i \in 0..31 |-> IF i < 31 THEN (n \div Pow2(i)) % 2 ELSE 0]

\* The uint with the four bytes b3 b2 b1 b0, b3 the most significant.
Bytes(b3, b2, b1, b0) ==
    [i \in 0..31 |->
        LET b == IF i >= 24 THEN b3 ELSE IF i >= 16 THEN b2 ELSE IF i >= 8 THEN b1 ELSE b0
        IN  (b \div Pow2(i % 8)) % 2]

\* w >> k
ShiftR(w, k) == [i \in 0..31 |-> IF i + k <= 31 THEN w[i + k] ELSE 0]

\* w & m
BitAnd(w, m) == [i \in 0..31 |-> w[i] * m[i]]

\* w | m
BitOr(w, m) == [i \in 0..31 |-> IF w[i] + m[i] > 0 THEN 1 ELSE 0]

RECURSIVE NatOfFrom(_, _)
NatOfFrom(w, i) ==
    IF i > 31 THEN 0
    ELSE (IF w[i] = 1 THEN Pow2(i) ELSE 0) + NatOfFrom(w, i + 1)

\* The value of a uint whose bit 31 is clear.
NatOf(w) == NatOfFrom(w, 0)

\* float(uint), for the values below 2^24 that a float holds exactly.
UintToFloat(w) == F(NatOf(w))

\* ------------------------------------------------------------------------
\* Vertex stage: unpack
\* ------------------------------------------------------------------------

\* position.x = float((data.x >> 16) & 0xFF), .y from >> 8, .z from >> 0, .w = 1.0
\* A mutation of it: x and y read from each other's byte.
unpack_position_swapped(data) ==
    << UintToFloat(BitAnd(ShiftR(data[1], 8), Lit(255))),
       UintToFloat(BitAnd(ShiftR(data[1], 16), Lit(255))),
       UintToFloat(BitAnd(data[1], Lit(255))),
       F(1) >>

unpack_position(data) ==
    << UintToFloat(BitAnd(ShiftR(data[1], 16), Lit(255))),
       UintToFloat(BitAnd(ShiftR(data[1], 8), Lit(255))),
       UintToFloat(BitAnd(data[1], Lit(255))),
       F(1) >>

\* uv = vec2(float((data.y >> 16) & 0xFFFF) / float(0xFFFF),
\*           float(data.y & 0xFFFF) / float(0xFFFF))
unpack_uv(data) ==
    << RDiv(UintToFloat(BitAnd(ShiftR(data[2], 16), Lit(65535))), UintToFloat(Lit(65535))),
       RDiv(UintToFloat(BitAnd(data[2], Lit(65535))), UintToFloat(Lit(65535))) >>

\* dir = (data.z >> 24) & 0xFF
\* A mutation of it: the byte below the top byte.
unpack_dir_low(data) == NatOf(BitAnd(ShiftR(data[3], 16), Lit(255)))

unpack_dir(data) == NatOf(BitAnd(ShiftR(data[3], 24), Lit(255)))

\* mapping = data.z & 0xFFFFFF
\* A mutation of it: the mask keeps 16 bits instead of 24.
unpack_mapping_narrow(data) == NatOf(BitAnd(data[3], Lit(65535)))

unpack_mapping(data) == NatOf(BitAnd(data[3], Lit(16777215)))

\* tint.x = float((data.w >> 24) & 0xFF) / 255.0, .y from >> 16, .z from >> 8, .w from >> 0
unpack_tint(data) ==
    << RDiv(UintToFloat(BitAnd(ShiftR(data[4], 24), Lit(255))), F(255)),
       RDiv(UintToFloat(BitAnd(ShiftR(data[4], 16), Lit(255))), F(255)),
       RDiv(UintToFloat(BitAnd(ShiftR(data[4], 8), Lit(255))), F(255)),
       RDiv(UintToFloat(BitAnd(data[4], Lit(255))), F(255)) >>

\* unpack(data, position, uv, dir, mapping, tint): the out parameters as a record.
unpack(data) ==
    [position |-> unpack_position(data),
     uv       |-> unpack_uv(data),
     dir      |-> unpack_dir(data),
     mapping  |-> unpack_mapping(data),
     tint     |-> unpack_tint(data)]

\* The re-encoding of an unpacked tuple with unpack's bit layout: each field
\* written back at the bits it was read from.
FieldBit(value, lo, width, i) ==
    IF i >= lo /\ i < lo + width THEN (value \div Pow2(i - lo)) % 2 ELSE 0

pack(t) ==
    << [i \in 0..31 |-> FieldBit(FloatToInt(t.position[1]), 16, 8, i)
                        + FieldBit(FloatToInt(t.position[2]), 8, 8, i)
                        + FieldBit(FloatToInt(t.position[3]), 0, 8, i)],
       [i \in 0..31 |-> FieldBit(FloatToInt(RMul(t.uv[1], F(65535))), 16, 16, i)
                        + FieldBit(FloatToInt(RMul(t.uv[2], F(65535))), 0, 16, i)],
       [i \in 0..31 |-> FieldBit(t.dir, 24, 8, i) + FieldBit(t.mapping, 0, 24, i)],
       [i \in 0..31 |-> FieldBit(FloatToInt(RMul(t.tint[1], F(255))), 24, 8, i)
                        + FieldBit(FloatToInt(RMul(t.tint[2], F(255))), 16, 8, i)
                        + FieldBit(FloatToInt(RMul(t.tint[3], F(255))), 8, 8, i)
                        + FieldBit(FloatToInt(RMul(t.tint[4], F(255))), 0, 8, i)] >>

\* The packed words the vertex buffer is drawn from.
SampleWords ==
    { Bytes(0, 0, 0, 0), Bytes(255, 255, 255, 255), Bytes(1, 2, 3, 4),
      Bytes(5, 0, 17, 128), Bytes(0, 127, 255, 1) }

\* Words whose top byte is one of the other face-direction codes, or none.
DirWords ==
    { Bytes(2, 255, 0, 1), Bytes(3, 0, 1, 0), Bytes(4, 1, 2, 3), Bytes(6, 0, 0, 7) }

\* The packed vertices: word 2 carries the face direction in its top byte.
VertexData ==
    { <<w0, w1, w2, w3>> : w0 \in SampleWords, w1 \in SampleWords,
                           w2 \in SampleWords \cup DirWords, w3 \in SampleWords }

\* The normals of the six faces, by face-direction code.
FaceNormals ==
    << <<F(1), F(0), F(0)>>, <<F(-1), F(0), F(0)>>,
       <<F(0), F(1), F(0)>>, <<F(0), F(-1), F(0)>>,
       <<F(0), F(0), F(1)>>, <<F(0), F(0), F(-1)>> >>

\* The normal of a face-direction code, looked up in the table; none (the
\* empty sequence) for a code outside the table.
decode_dir(dir) == IF dir + 1 \in DOMAIN FaceNormals THEN << FaceNormals[dir + 1] >> ELSE << >>

\* ------------------------------------------------------------------------
\* Vertex stage: main
\* ------------------------------------------------------------------------

\* A * B for matrices given by their columns.
MatMul(A, B) == [j \in DOMAIN B |-> MatVec(A, B[j])]

\* position = vec4(indirect[gl_DrawID].position.xyz + position.xyz, 1)
\* A mutation of it: the first entry of the indirect buffer, whatever the draw.
WorldPositionFirstDraw(ind, draw_id, position) ==
    Vec4(VAdd(Xyz(ind[1].position), Xyz(position)), F(1))

WorldPosition(ind, draw_id, position) ==
    Vec4(VAdd(Xyz(ind[draw_id + 1].position), Xyz(position)), F(1))

\* gl_Position = camera.proj * camera.view * position
ClipPosition(cam, position) == MatVec(MatMul(cam.proj, cam.view), position)

\* main of the vertex stage after unpack returned t: the stage's outputs.
VertexMain(cam, ind, draw_id, t) ==
    LET position == WorldPosition(ind, draw_id, t.position)
    IN  [position |-> position, gl_Position |-> ClipPosition(cam, position),
         uv |-> t.uv, mapping |-> t.mapping, tint |-> t.tint, dir |-> t.dir]

\* ------------------------------------------------------------------------
\* Fragment stage: atlas sampling
\* ------------------------------------------------------------------------

\* #define TEX_SIZE 128
TEX_SIZE == 128

\* #define ATLAS_AXIS 16
ATLAS_AXIS == 16

\* vec2 tex_pos_id = vec2(mapping % ATLAS_AXIS, mapping / ATLAS_AXIS)
\* A mutation of it: the two coordinates exchanged.
tex_pos_id_swapped(mapping) == << F(mapping \div ATLAS_AXIS), F(mapping % ATLAS_AXIS) >>

tex_pos_id(mapping) == << F(mapping % ATLAS_AXIS), F(mapping \div ATLAS_AXIS) >>

\* ivec3(ivec2(uvs.xy * TEX_SIZE), 0), uvs = tex_pos_id + uv
AtlasCoord(mapping, uv) ==
    LET uvs == VAdd(tex_pos_id(mapping), uv)
    IN  << FloatToInt(RMul(uvs[1], F(TEX_SIZE))), FloatToInt(RMul(uvs[2], F(TEX_SIZE))), 0 >>

\* The atlas: ATLAS_AXIS tiles of TEX_SIZE texels along x and y; a texel of
\* layer 0 holds its tile's coordinates and its own parity.
AtlasHas(c) ==
    /\ c[1] \in 0..(ATLAS_AXIS * TEX_SIZE - 1)
    /\ c[2] \in 0..(ATLAS_AXIS * TEX_SIZE - 1)
    /\ c[3] = 0

AtlasTexel(c) ==
    << R(c[1] \div TEX_SIZE, ATLAS_AXIS), R(c[2] \div TEX_SIZE, ATLAS_AXIS),
       F((c[1] + c[2]) % 2), F(1) >>

\* tint * albedo, componentwise
VMul(u, v) == [k \in DOMAIN u |-> RMul(u[k], v[k])]

\* main of the fragment stage: the texel it fetches and its result; a load
\* outside the atlas returns undefined.
FragmentMain(frag, undefined) ==
    LET c == AtlasCoord(frag.mapping, frag.uv)
        albedo == IF AtlasHas(c) THEN AtlasTexel(c) ELSE undefined
    IN  [texel |-> c, result |-> VMul(frag.tint, albedo)]

\* ------------------------------------------------------------------------
\* Compute stages: images, invocations
\* ------------------------------------------------------------------------

\* The pixels of an image of extent size = <<width, height>>.
Pixels(size) == (0..(size[1] - 1)) \X (0..(size[2] - 1))

\* any(greaterThanEqual(pos_i, ivec2(size)))
AnyGE(pos_i, size) == pos_i[1] >= size[1] \/ pos_i[2] >= size[2]

\* any(lessThan(pos_i, ivec2(0)))
AnyNegative(pos_i) == pos_i[1] < 0 \/ pos_i[2] < 0

\* imageStore(image, pos, value); a store outside the image is discarded.
\* A mutation of it: the store fills the texel's row.
ImageStoreRow(image, pos, value) ==
    [p \in DOMAIN image |-> IF p[2] = pos[2] THEN value ELSE image[p]]

ImageStore(image, pos, value) ==
    IF pos \in DOMAIN image THEN [image EXCEPT ![pos] = value] ELSE image

\* The stores of a list applied to an image, in order; each store is
\* [image |-> its name, pos |-> the texel, value |-> the vec4].
ApplyStores(image, name, stores) ==
    LET after[i \in 0..Len(stores)] ==
            IF i = 0 THEN image
            ELSE IF stores[i].image = name
            THEN ImageStore(after[i - 1], stores[i].pos, stores[i].value)
            ELSE after[i - 1]
    IN  after[Len(stores)]

Splat4(x) == <<x, x, x, x>>

\* ------------------------------------------------------------------------
\* SSAO stage (compute)
\* ------------------------------------------------------------------------

\* uintBitsToFloat(x) for a normal number with exponent 2^-7 .. 2^7.
UintBitsToFloat(x) ==
    LET m == NatOf(BitAnd(x, Lit(8388607)))
        e == NatOf(BitAnd(ShiftR(x, 23), Lit(255)))
        v == IF e >= 127 THEN R((8388608 + m) * Pow2(e - 127), 8388608)
             ELSE R(8388608 + m, 8388608 * Pow2(127 - e))
    IN  IF x[31] = 1 THEN RNeg(v) ELSE v

\* float_construct_0_1(m)
float_construct_0_1(m) ==
    LET ieee_mantissa == Lit(8388607)
        ieee_one == Bytes(63, 128, 0, 0)
        x == BitOr(BitAnd(m, ieee_mantissa), ieee_one)
        f == UintBitsToFloat(x)
    IN  RSub(f, F(1))

\* radius = 0.8
radius == R(4, 5)

\* for(uint i = 0; i < 8; i++)
KernelSize == 8

\* dot(offset_normal, normal) > 0.99 : continue
\* A mutation of it: no same-surface guard.
SameSurfaceNever(d) == FALSE

SameSurface(d) == RGt(d, R(99, 100))

\* (offset_pos.z <= sample_pos.z - 0.005 ? 0.0 : 1.0)
Occluding(offset_z, sample_z) ==
    IF RLe(offset_z, RSub(sample_z, R(1, 200))) THEN F(0) ELSE F(1)

\* ivec2(v): an undefined conversion (NaN, Inf) yields u.
ToIVec2(v, u) ==
    << IF IsFinite(v[1]) THEN FloatToInt(v[1]) ELSE u,
       IF IsFinite(v[2]) THEN FloatToInt(v[2]) ELSE u >>

\* (camera.view * vec4(-imageLoad(normal_image, p).rgb, 0)).xyz
ViewNormal(cam, nimg, p) == Xyz(MatVec(cam.view, Vec4(VNeg(Xyz(nimg[p])), F(0))))

\* (camera.view * vec4(imageLoad(position_image, p).xyz, 1.0)).xyz
ViewPosition(cam, pimg, p) == Xyz(MatVec(cam.view, Vec4(Xyz(pimg[p]), F(1))))

\* The part of main before the loop: the fragment and its tangent frame.
SSAOFrame(cam, noise, pimg, nimg, pos_i) ==
    LET frag_pos == ViewPosition(cam, pimg, pos_i)
        normal == ViewNormal(cam, nimg, pos_i)
        size == noise.size
        random_ints == noise.texels[<<pos_i[1] % size[1], pos_i[2] % size[2]>>]
        random == Normalize(<< RSub(RMul(float_construct_0_1(random_ints[1]), F(2)), F(1)),
                               RSub(RMul(float_construct_0_1(random_ints[2]), F(2)), F(1)),
                               F(0) >>)
        tangent == Normalize(VSub(random, VScale(normal, Dot(random, normal))))
        bitangent == Cross(normal, tangent)
    IN  [frag_pos |-> frag_pos, normal |-> normal,
         tbn |-> <<tangent, bitangent, normal>>]

\* One iteration of the loop over the kernel: the texel the sample projects
\* to (undef: by a conversion GLSL leaves undefined), why the iteration was
\* skipped if it was, and what it adds to occlusion.
SSAOSample(cam, kernel, pimg, nimg, fr, i, u) ==
    LET sample_pos == VAdd(fr.frag_pos, VScale(MatVec(fr.tbn, Xyz(kernel[i])), radius))
        proj == MatVec(cam.proj, Vec4(sample_pos, F(1)))
        ndc == VDivS(Xyz(proj), proj[4])
        offset == VAdd(VScale(ndc, R(1, 2)), <<R(1, 2), R(1, 2), R(1, 2)>>)
        offset_pos_i == ToIVec2(<< RMul(F(cam.resolution[1]), offset[1]),
                                   RMul(F(cam.resolution[2]), offset[2]) >>, u)
        undef == ~IsFinite(offset[1]) \/ ~IsFinite(offset[2])
    IN  IF AnyNegative(offset_pos_i) \/ AnyGE(offset_pos_i, cam.resolution)
        THEN [pos |-> offset_pos_i, undef |-> undef, skip |-> "outside", add |-> F(0)]
        ELSE IF SameSurface(Dot(ViewNormal(cam, nimg, offset_pos_i), fr.normal))
        THEN [pos |-> offset_pos_i, undef |-> undef, skip |-> "same_surface", add |-> F(0)]
        ELSE LET offset_pos == ViewPosition(cam, pimg, offset_pos_i)
                 range_check == Smoothstep(F(0), F(1),
                                    RDiv(radius, RAbs(RSub(fr.frag_pos[3], offset_pos[3]))))
             IN  [pos |-> offset_pos_i, undef |-> undef, skip |-> "no",
                  add |-> RMul(Occluding(offset_pos[3], sample_pos[3]), range_check)]

\* The sum of the floats of a sequence, added in order.
SumSeq(xs) ==
    LET acc[i \in 0..Len(xs)] == IF i = 0 THEN F(0) ELSE RAdd(acc[i - 1], xs[i])
    IN  acc[Len(xs)]

\* occlusion = 1.0 - (occlusion / 8)
\* A mutation of it: occlusion / 8, not subtracted from 1.
SSAOFinalInverted(occlusion) == RDiv(occlusion, F(8))

SSAOFinal(occlusion) == RSub(F(1), RDiv(occlusion, F(8)))

\* if (frag_pos.w == 0) imageStore(ssao_output_image, pos_i, vec4(0))
\* A mutation of it: vec4(1).
SSAONoGeometryOne == Splat4(F(1))

SSAONoGeometry == Splat4(F(0))

\* main of the SSAO stage for the invocation pos_i: its image stores and the
\* record of its loop iterations.
SSAOMain(cam, noise, kernel, pimg, nimg, pos_i, u) ==
    IF AnyGE(pos_i, cam.resolution)
    THEN [stores |-> << >>, samples |-> << >>]
    ELSE IF pimg[pos_i][4] = F(0)
    THEN [stores |-> << [image |-> "ssao_output_image", pos |-> pos_i, value |-> SSAONoGeometry] >>,
          samples |-> << >>]
    ELSE CHOOSE r \in
            { [stores |-> << [image |-> "ssao_output_image", pos |-> pos_i,
                             value |-> Splat4(SSAOFinal(SumSeq([i \in DOMAIN samples |-> samples[i].add])))] >>,
               samples |-> samples] :
              samples \in { [i \in 1..KernelSize |-> SSAOSample(cam, kernel, pimg, nimg, fr, i, u)] :
                            fr \in { SSAOFrame(cam, noise, pimg, nimg, pos_i) } } } : TRUE

\* ------------------------------------------------------------------------
\* Blur stage (compute)
\* ------------------------------------------------------------------------

\* int dist = 4
dist == 4

\* ivec2 off = ivec2(0); if (push.dir == 0) off.x = 1; if (push.dir == 1) off.y = 1;
BlurOff(dir) == << IF dir = 0 THEN 1 ELSE 0, IF dir = 1 THEN 1 ELSE 0 >>

\* off_i = pos_i + i * off
BlurTap(pos_i, i, dir) == << pos_i[1] + i * BlurOff(dir)[1], pos_i[2] + i * BlurOff(dir)[2] >>

\* dot(_input_normal, _rel_normal) < 0.9 : continue
BlurRejects(input_normal, rel_normal) == RLt(Dot(input_normal, rel_normal), R(9, 10))

\* Whether iteration i of the loop reaches its imageLoad of blur_image.
BlurAccepts(res, nimg, dir, pos_i, i) ==
    LET off_i == BlurTap(pos_i, i, dir)
    IN  /\ ~(AnyNegative(off_i) \/ AnyGE(off_i, res))
        /\ ~BlurRejects(nimg[pos_i], nimg[off_i])

\* The first iteration from i on that reads blur_image; dist + 1 if none does.
RECURSIVE BlurNextRead(_, _, _, _, _)
BlurNextRead(res, nimg, dir, pos_i, i) ==
    IF i > dist THEN i
    ELSE IF BlurAccepts(res, nimg, dir, pos_i, i) THEN i
    ELSE BlurNextRead(res, nimg, dir, pos_i, i + 1)

\* _res_info /= float(samples)
\* A mutation of it: the sum divided by the window's 9 taps.
BlurAverageWindow(res_info, samples) == VDivS(res_info, F(2 * dist + 1))

BlurAverage(res_info, samples) == VDivS(res_info, F(samples))

\* The imageLoad calls on blur_image of the loop of invocation pos_i, run
\* with no other invocation in between; deps gives for each texel the texels
\* its value was computed from.
BlurLoads(res, nimg, bimg, deps, dir, pos_i) ==
    LET loads[i \in (-dist - 1)..dist] ==
            IF i = -dist - 1 THEN << >>
            ELSE IF BlurAccepts(res, nimg, dir, pos_i, i)
            THEN Append(loads[i - 1], [pos |-> BlurTap(pos_i, i, dir),
                                       value |-> bimg[BlurTap(pos_i, i, dir)],
                                       deps |-> deps[BlurTap(pos_i, i, dir)]])
            ELSE loads[i - 1]
    IN  loads[dist]

\* _res_info += _rel_info over the loads.
BlurSum(loads) ==
    LET res_info[k \in 0..Len(loads)] ==
            IF k = 0 THEN Splat4(F(0)) ELSE VAdd(res_info[k - 1], loads[k].value)
    IN  res_info[Len(loads)]

\* The end of main: the average is stored at pos_i.
BlurResult(pos_i, loads) ==
    [loads |-> loads, samples |-> Len(loads),
     stores |-> << [image |-> "blur_image", pos |-> pos_i,
                    value |-> BlurAverage(BlurSum(loads), Len(loads))] >>]

\* main of the blur stage for the invocation pos_i.
BlurMain(res, nimg, bimg, deps, dir, pos_i) ==
    IF AnyGE(pos_i, res) THEN [loads |-> << >>, samples |-> 0, stores |-> << >>]
    ELSE BlurResult(pos_i, BlurLoads(res, nimg, bimg, deps, dir, pos_i))

\* ------------------------------------------------------------------------
\* Composite stage (compute)
\* ------------------------------------------------------------------------

\* vec4 res = vec4(imageLoad(ssao_image, pos_i).r * imageLoad(color_image, pos_i).rgb, 1.0)
\* A mutation of it: the colour's alpha is passed through.
CompositeResKeepAlpha(ssao_texel, color_texel) ==
    Vec4(VScale(Xyz(color_texel), ssao_texel[1]), color_texel[4])

CompositeRes(ssao_texel, color_texel) == Vec4(VScale(Xyz(color_texel), ssao_texel[1]), F(1))

\* main of the composite stage for the invocation pos_i: its image stores.
CompositeMain(cam, simg, cimg, pos_i) ==
    IF AnyGE(pos_i, cam.resolution) THEN << >>
    ELSE << [image |-> "composite_image", pos |-> pos_i,
             value |-> CompositeRes(simg[pos_i], cimg[pos_i])] >>

\* ------------------------------------------------------------------------
\* Inputs of the compute stages
\* ------------------------------------------------------------------------

\* The dispatch covers GridW x GridH invocations; the resolution is at most that.
GridW == 2

GridH == 2

\* The model follows a dispatch until this many of its invocations have started.
MaxInvocations == 2

Grid == (0..(GridW - 1)) \X (0..(GridH - 1))

Resolutions == (1..GridW) \X (1..GridH)

Identity4 ==
    << <<F(1), F(0), F(0), F(0)>>, <<F(0), F(1), F(0), F(0)>>,
       <<F(0), F(0), F(1), F(0)>>, <<F(0), F(0), F(0), F(1)>> >>

\* A perspective projection: w = -z.
Perspective4 ==
    << <<F(1), F(0), F(0), F(0)>>, <<F(0), F(1), F(0), F(0)>>,
       <<F(0), F(0), F(-1), F(-1)>>, <<F(0), F(0), R(-1, 5), F(0)>> >>

\* A view that looks the other way: a half turn about the y axis.
HalfTurn4 ==
    << <<F(-1), F(0), F(0), F(0)>>, <<F(0), F(1), F(0), F(0)>>,
       <<F(0), F(0), F(-1), F(0)>>, <<F(0), F(0), F(0), F(1)>> >>

\* An image of extent size whose texel p is values[1 + (c + d * (x + y)) mod n]:
\* c picks the value of texel (0,0) and d the step to its neighbours.
Pattern(values, size, c, d) ==
    [p \in Pixels(size) |-> values[1 + ((c + d * (p[1] + p[2])) % Len(values))]]

Patterns(values, size) ==
    { Pattern(values, size, c, d) : c \in 0..(Len(values) - 1), d \in 0..(Len(values) - 1) }

\* The cameras of the SSAO stage.
CameraIdentity(r) == [proj |-> Identity4, view |-> Identity4, resolution |-> r]

CameraPerspective(r) == [proj |-> Perspective4, view |-> HalfTurn4, resolution |-> r]

\* Position G-buffer texels: xyz and the validity flag w (0: no geometry).
PositionValues ==
    << <<F(0), F(0), F(0), F(0)>>,
       <<R(-1, 2), F(0), F(-1), F(1)>>,
       <<R(1, 2), F(0), R(-1, 2), F(1)>> >>

\* Normal G-buffer texels (the stages negate them on reading): facing the
\* identity camera, the same scaled to 0.99, and facing sideways.
NormalValues ==
    << <<F(0), F(0), F(-1), F(0)>>,
       <<F(0), F(0), R(-99, 100), F(0)>>,
       <<F(-1), F(0), F(0), F(0)>> >>

\* Noise texels (r, g): float_construct_0_1 maps 0x00000000 to 0,
\* 0xFFC00000 to 0.5 and 0x00600000 to 0.75.
NoiseOne ==
    [size |-> <<1, 1>>,
     texels |-> [p \in Pixels(<<1, 1>>) |-> <<Bytes(0, 0, 0, 0), Bytes(255, 192, 0, 0)>>]]

NoiseTwo ==
    [size |-> <<2, 1>>,
     texels |-> [p \in Pixels(<<2, 1>>) |->
                   IF p[1] = 0 THEN <<Bytes(0, 96, 0, 0), Bytes(255, 192, 0, 0)>>
                   ELSE <<Bytes(255, 192, 0, 0), Bytes(255, 192, 0, 0)>>]]

\* Kernel images: KernelSize texels, rgb an offset in the unit hemisphere.
KernelOne ==
    [i \in 1..KernelSize |->
        IF i % 2 = 1 THEN <<F(0), F(0), F(1), F(0)>> ELSE <<F(-1), F(0), R(1, 2), F(0)>>]

KernelTwo ==
    [i \in 1..KernelSize |->
        IF i % 4 = 1 THEN <<F(1), F(0), R(1, 4), F(0)>>
        ELSE IF i % 4 = 2 THEN <<F(0), F(0), F(0), F(0)>>
        ELSE IF i % 4 = 3 THEN <<R(-5, 2), F(0), R(1, 2), F(0)>>
        ELSE <<R(1, 2), R(1, 2), R(5, 4), F(0)>>]

\* The camera, noise and kernel bindings of the SSAO stage.
SSAOBindings ==
    { [camera |-> CameraIdentity(r), noise |-> NoiseOne, kernel |-> KernelOne] : r \in Resolutions }
    \cup { [camera |-> CameraIdentity(r), noise |-> NoiseTwo, kernel |-> KernelTwo] : r \in Resolutions }
    \cup { [camera |-> CameraPerspective(r), noise |-> NoiseOne, kernel |-> KernelTwo] : r \in Resolutions }

\* Normal texels of the blur stage: two unit normals and a cleared texel.
BlurNormalValues ==
    << <<F(0), F(0), F(-1), F(0)>>,
       <<F(-1), F(0), F(0), F(0)>>,
       <<F(0), F(0), F(0), F(0)>> >>

\* SSAO texels the blur stage starts from.
BlurValues == << Splat4(F(0)), Splat4(F(1)) >>

\* The blur stage's direction flag.
Dirs == {0, 1}

\* SSAO and colour texels of the composite stage.
SSAOValues == << Splat4(F(0)), <<R(1, 2), F(1), F(0), F(1)>>, Splat4(F(1)) >>

ColorValues ==
    << <<F(0), F(0), F(0), F(1)>>,
       <<F(1), F(1), F(1), F(1)>>,
       <<R(1, 4), R(1, 2), R(3, 4), R(1, 2)>> >>

\* What an image holds before the stage that writes it has run.
Stale == Splat4(F(7))

\* The outcomes of int(NaN) and int(Inf): a texel coordinate inside or outside.
UndefinedInts == {0, -1}

\* stage: the stage being run.
\* vertex: the packed vertex the vertex stage fetched; unpacked: << >> before
\*   unpack ran, then <<its out parameters>>.
\* camera and the images: the bindings of the compute stages.
\* push: the blur stage's push constant.
\* blur_image0: what blur_image held when the blur dispatch started.
\* inv: the local state of each invocation of the dispatch, by its
\*   gl_GlobalInvocationID.xy; stores lists its imageStore calls.
\* indirect, gl_DrawID: the indirect buffer and the draw's ordinal id;
\*   vertex_out: << >> before the vertex stage's main ended, then <<its outputs>>.
\* fragment: the inputs of a fragment; fragment_out: << >>, then <<the texel
\*   it fetched and its result>>.
\* blur_deps: for each texel of blur_image, the texels of blur_image0 its
\*   value was computed from.
\* cookies: the browser's cookies, by name; responses: what the server
\*   answered to each request so far.
VARIABLES stage, vertex, unpacked, camera, noise_image, ssao_kernel_image,
          position_image, normal_image, ssao_output_image, blur_image, push,
          ssao_image, color_image, composite_image, inv, blur_image0,
          indirect, gl_DrawID, vertex_out, fragment, fragment_out, blur_deps,
          cookies, responses

vars == << stage, vertex, unpacked, camera, noise_image, ssao_kernel_image,
           position_image, normal_image, ssao_output_image, blur_image, push,
           ssao_image, color_image, composite_image, inv, blur_image0,
           indirect, gl_DrawID, vertex_out, fragment, fragment_out, blur_deps,
           cookies, responses >>

vertexVars == <<vertex, unpacked, indirect, gl_DrawID, vertex_out>>

fragmentVars == <<fragment, fragment_out>>

webVars == <<cookies, responses>>

ssaoVars == <<noise_image, ssao_kernel_image, position_image, ssao_output_image>>

blurVars == <<blur_image, push, blur_image0, blur_deps>>

compositeVars == <<ssao_image, color_image, composite_image>>

Unbound == << >>

NoDraw == indirect = Unbound /\ gl_DrawID = Unbound /\ vertex_out = Unbound

NoVertex == vertex = Unbound /\ unpacked = Unbound /\ NoDraw

NoFragment == fragment = Unbound /\ fragment_out = Unbound

NoWeb == cookies = Unbound /\ responses = Unbound

\* No raster stage and no web server is part of a compute dispatch.
NoRaster == NoVertex /\ NoFragment /\ NoWeb

NoSSAO ==
    /\ noise_image = Unbound
    /\ ssao_kernel_image = Unbound
    /\ position_image = Unbound
    /\ ssao_output_image = Unbound

NoBlur ==
    blur_image = Unbound /\ push = Unbound /\ blur_image0 = Unbound /\ blur_deps = Unbound

NoComposite == ssao_image = Unbound /\ color_image = Unbound /\ composite_image = Unbound

NoCompute == camera = Unbound /\ normal_image = Unbound /\ inv = Unbound

\* ------------------------------------------------------------------------
\* Vertex stage
\* ------------------------------------------------------------------------

\* The cameras of the vertex stage.
VertexCameras ==
    { [proj |-> Identity4, view |-> Identity4], [proj |-> Perspective4, view |-> HalfTurn4] }

\* The indirect buffer: a draw with a zero offset and one with another.
IndirectBuffer ==
    << [position |-> << F(0), F(0), F(0), F(0) >>],
       [position |-> << F(16), F(-32), R(1, 2), F(5) >>] >>

InitUnpack ==
    /\ stage = "vertex"
    /\ vertex \in [data : VertexData]
    /\ unpacked = << >>
    /\ camera \in VertexCameras
    /\ indirect = IndirectBuffer
    /\ gl_DrawID \in 0..(Len(IndirectBuffer) - 1)
    /\ vertex_out = << >>
    /\ NoFragment /\ NoWeb
    /\ normal_image = Unbound /\ inv = Unbound
    /\ NoSSAO /\ NoBlur /\ NoComposite

\* The vertex stage unpacks the vertex it fetched.
Unpack ==
    /\ stage = "vertex"
    /\ unpacked = << >>
    /\ unpacked' = << unpack(vertex.data) >>
    /\ UNCHANGED <<stage, vertex, indirect, gl_DrawID, vertex_out, camera, normal_image, inv,
                   ssaoVars, blurVars, compositeVars, fragmentVars, webVars>>

SpecUnpack == InitUnpack /\ [][Unpack]_vars

\* The vertex stage runs the rest of main.
Vertex ==
    /\ stage = "vertex"
    /\ unpacked # << >>
    /\ vertex_out = << >>
    /\ vertex_out' = << VertexMain(camera, indirect, gl_DrawID, unpacked[1]) >>
    /\ UNCHANGED <<stage, vertex, unpacked, indirect, gl_DrawID, camera, normal_image, inv,
                   ssaoVars, blurVars, compositeVars, fragmentVars, webVars>>

SpecVertex == InitUnpack /\ [][Unpack \/ Vertex]_vars

\* ------------------------------------------------------------------------
\* Fragment stage
\* ------------------------------------------------------------------------

\* The tile indices fragments carry: the corners of the atlas, tile 17, and
\* the first index past a 16 x 16 atlas.
FragmentMappings == {0, 1, 15, 16, 17, 255, 256}

\* The uv components: n / 65535 for the least, the greatest and a middle n.
FragmentUVs == { R(n, 65535) : n \in {0, 1, 32768, 65534, 65535} }

FragmentTints == { Splat4(F(1)), << R(1, 255), R(128, 255), F(0), F(1) >> }

\* What a load outside the atlas may return.
UndefinedTexels == { Splat4(F(0)), Splat4(F(1)) }

InitFragment ==
    /\ stage = "fragment"
    /\ fragment \in [mapping : FragmentMappings, uv : FragmentUVs \X FragmentUVs,
                     tint : FragmentTints]
    /\ fragment_out = << >>
    /\ NoVertex /\ NoWeb
    /\ NoCompute /\ NoSSAO /\ NoBlur /\ NoComposite

\* The fragment stage runs main.
Fragment ==
    /\ stage = "fragment"
    /\ fragment_out = << >>
    /\ \E u \in UndefinedTexels : fragment_out' = << FragmentMain(fragment, u) >>
    /\ UNCHANGED << stage, fragment, camera, normal_image, inv, vertexVars, ssaoVars, blurVars,
                    compositeVars, webVars >>

SpecFragment == InitFragment /\ [][Fragment]_vars

\* ------------------------------------------------------------------------
\* SSAO dispatch
\* ------------------------------------------------------------------------

InitSSAO ==
    /\ stage = "ssao"
    /\ \E b \in SSAOBindings :
        /\ camera = b.camera
        /\ noise_image = b.noise
        /\ ssao_kernel_image = b.kernel
    /\ position_image \in Patterns(PositionValues, camera.resolution)
    /\ normal_image \in Patterns(NormalValues, camera.resolution)
    /\ ssao_output_image = [p \in Pixels(camera.resolution) |-> Stale]
    /\ inv = [g \in Grid |-> [pc |-> "start", stores |-> << >>, samples |-> << >>]]
    /\ NoRaster /\ NoBlur /\ NoComposite

\* What main can do for invocation g: one outcome, or one for each value an
\* undefined conversion may yield.
SSAOOutcomes(g) ==
    { IF \E i \in DOMAIN r.samples : r.samples[i].undef
      THEN SSAOMain(camera, noise_image, ssao_kernel_image, position_image, normal_image, g, u)
      ELSE r :
      r \in { SSAOMain(camera, noise_image, ssao_kernel_image, position_image, normal_image, g, 0) },
      u \in UndefinedInts }

\* Whether one more invocation of the dispatch may start.
MayStart == Cardinality({g \in DOMAIN inv : inv[g].pc # "start"}) < MaxInvocations

\* Invocation g of the SSAO stage runs main.
SSAOInvocation(g) ==
    /\ stage = "ssao"
    /\ inv[g].pc = "start"
    /\ MayStart
    /\ \E r \in SSAOOutcomes(g) :
        /\ inv' = [inv EXCEPT ![g] = [pc |-> "done", stores |-> r.stores, samples |-> r.samples]]
        /\ ssao_output_image' = ApplyStores(ssao_output_image, "ssao_output_image", r.stores)
    /\ UNCHANGED << stage, camera, noise_image, ssao_kernel_image, position_image,
                    normal_image, vertexVars, blurVars, compositeVars, fragmentVars, webVars >>

NextSSAO == \E g \in DOMAIN inv : SSAOInvocation(g)

SpecSSAO == InitSSAO /\ [][NextSSAO]_vars

\* ------------------------------------------------------------------------
\* Blur dispatch
\* ------------------------------------------------------------------------

\* The locals of a blur invocation before it runs; loads lists its imageLoad
\* calls on blur_image with what each returned.
BlurLocals ==
    [pc |-> "start", i |-> -dist, res_info |-> Splat4(F(0)), samples |-> 0,
     loads |-> << >>, stores |-> << >>]

InitBlur ==
    /\ stage = "blur"
    /\ camera \in { CameraIdentity(r) : r \in Resolutions }
    /\ push \in [dir : Dirs]
    /\ normal_image \in Patterns(BlurNormalValues, camera.resolution)
    /\ blur_image \in Patterns(BlurValues, camera.resolution)
    /\ blur_image0 = blur_image
    /\ blur_deps = [p \in DOMAIN blur_image |-> {p}]
    /\ inv = [g \in Grid |-> BlurLocals]
    /\ NoRaster /\ NoSSAO /\ NoComposite

\* Invocation g of the blur stage, outside the resolution, returns.
BlurReturn(g) ==
    /\ stage = "blur"
    /\ inv[g].pc = "start"
    /\ MayStart
    /\ AnyGE(g, camera.resolution)
    /\ inv' = [inv EXCEPT ![g].pc = "done"]
    /\ UNCHANGED << stage, camera, normal_image, vertexVars, ssaoVars, blurVars, compositeVars,
                    fragmentVars, webVars >>

\* Invocation g of the blur stage runs its loop up to and including the next
\* imageLoad of blur_image (the iterations before it read normal_image only).
BlurLoad(g) ==
    /\ stage = "blur"
    /\ \/ inv[g].pc = "start" /\ MayStart /\ ~AnyGE(g, camera.resolution)
       \/ inv[g].pc = "loop"
    /\ LET i == BlurNextRead(camera.resolution, normal_image, push.dir, g, inv[g].i)
       IN  /\ i <= dist
           /\ inv' = [inv EXCEPT ![g] =
                        [pc |-> "loop", i |-> i + 1,
                         res_info |-> VAdd(inv[g].res_info, blur_image[BlurTap(g, i, push.dir)]),
                         samples |-> inv[g].samples + 1,
                         loads |-> Append(inv[g].loads,
                                          [pos |-> BlurTap(g, i, push.dir),
                                           value |-> blur_image[BlurTap(g, i, push.dir)],
                                           deps |-> blur_deps[BlurTap(g, i, push.dir)]]),
                         stores |-> << >>]]
    /\ UNCHANGED << stage, camera, normal_image, vertexVars, ssaoVars, blurVars, compositeVars,
                    fragmentVars, webVars >>

\* Invocation g of the blur stage runs the rest of its loop, which reads
\* blur_image no more, divides and stores.
BlurStore(g) ==
    /\ stage = "blur"
    /\ \/ inv[g].pc = "start" /\ MayStart /\ ~AnyGE(g, camera.resolution)
       \/ inv[g].pc = "loop"
    /\ BlurNextRead(camera.resolution, normal_image, push.dir, g, inv[g].i) > dist
    /\ LET value == BlurAverage(inv[g].res_info, inv[g].samples)
       IN  /\ inv' = [inv EXCEPT ![g] =
                        [pc |-> "done", i |-> dist + 1, res_info |-> value,
                         samples |-> inv[g].samples, loads |-> inv[g].loads,
                         stores |-> << [image |-> "blur_image", pos |-> g, value |-> value] >>]]
           /\ blur_image' = ImageStore(blur_image, g, value)
           /\ blur_deps' = [blur_deps EXCEPT ![g] =
                               UNION { inv[g].loads[k].deps : k \in DOMAIN inv[g].loads }]
    /\ UNCHANGED << stage, camera, normal_image, push, blur_image0, vertexVars, ssaoVars,
                    compositeVars, fragmentVars, webVars >>

NextBlur == \E g \in DOMAIN inv : BlurReturn(g) \/ BlurLoad(g) \/ BlurStore(g)

SpecBlur == InitBlur /\ [][NextBlur]_vars

\* ------------------------------------------------------------------------
\* Blur dispatch over an image as long as the window
\* ------------------------------------------------------------------------

\* The length of the image along its long axis: the window's 9 taps fit.
WideLen == 9

\* A row and a column of WideLen pixels.
WideResolutions == { <<WideLen, 1>>, <<1, WideLen>> }

\* The dispatch covers the image and one invocation past its end.
WideGrid(r) == Pixels(<< IF r[1] > 1 THEN r[1] + 1 ELSE 1, IF r[2] > 1 THEN r[2] + 1 ELSE 1 >>)

\* Normal texels: a unit normal, the same scaled to 0.9, a unit normal
\* orthogonal to them.
WideNormalValues ==
    << <<F(0), F(0), F(-1), F(0)>>,
       <<F(0), F(0), R(-9, 10), F(0)>>,
       <<F(-1), F(0), F(0), F(0)>> >>

\* Uniform images and images that cycle through the three normals.
WideNormalImages(r) == { Pattern(WideNormalValues, r, c, d) : c \in 0..2, d \in 0..1 }

\* SSAO texels that differ in every pixel and channel.
WideValues(r) ==
    [p \in Pixels(r) |-> << F(p[1] + p[2]), F((p[1] + p[2]) * (p[1] + p[2])),
                            R(1, 1 + p[1] + p[2]), F(1) >>]

InitBlurWide ==
    /\ stage = "blur"
    /\ camera \in { CameraIdentity(r) : r \in WideResolutions }
    /\ push \in [dir : Dirs]
    /\ normal_image \in WideNormalImages(camera.resolution)
    /\ blur_image = WideValues(camera.resolution)
    /\ blur_image0 = blur_image
    /\ blur_deps = [p \in DOMAIN blur_image |-> {p}]
    /\ inv = [g \in WideGrid(camera.resolution) |-> BlurLocals]
    /\ NoRaster /\ NoSSAO /\ NoComposite

SpecBlurWide == InitBlurWide /\ [][NextBlur]_vars

\* ------------------------------------------------------------------------
\* The two blur dispatches of a frame
\* ------------------------------------------------------------------------

\* The length of the image along its long axis: longer than half the window.
PassLen == 6

PassResolutions == { <<PassLen, 1>>, <<1, PassLen>> }

InitBlurPasses ==
    /\ stage = "blur"
    /\ camera \in { CameraIdentity(r) : r \in PassResolutions }
    /\ push = [dir |-> 0]
    /\ normal_image = Pattern(WideNormalValues, camera.resolution, 0, 0)
    /\ blur_image = WideValues(camera.resolution)
    /\ blur_image0 = blur_image
    /\ blur_deps = [p \in DOMAIN blur_image |-> {p}]
    /\ inv = [g \in Pixels(camera.resolution) |-> BlurLocals]
    /\ NoRaster /\ NoSSAO /\ NoComposite

\* Invocation g of the blur stage runs main from start to end.
BlurRun(g) ==
    /\ stage = "blur"
    /\ inv[g].pc = "start"
    /\ LET r == CHOOSE r \in { BlurMain(camera.resolution, normal_image, blur_image,
                                          blur_deps, push.dir, p) : p \in {g} } : TRUE
       IN  /\ inv' = [inv EXCEPT ![g] =
                        [pc |-> "done", i |-> dist + 1,
                         res_info |-> IF r.stores = << >> THEN inv[g].res_info
                                      ELSE r.stores[1].value,
                         samples |-> r.samples, loads |-> r.loads, stores |-> r.stores]]
           /\ blur_image' = ApplyStores(blur_image, "blur_image", r.stores)
           /\ blur_deps' = IF r.stores = << >> THEN blur_deps
                           ELSE [blur_deps EXCEPT ![g] =
                                   UNION { r.loads[k].deps : k \in DOMAIN r.loads }]
    /\ UNCHANGED << stage, camera, normal_image, push, blur_image0, vertexVars, ssaoVars,
                    compositeVars, fragmentVars, webVars >>

\* The dispatch with direction flag 0 has ended: after a barrier the
\* orchestrator issues the dispatch with flag 1.
BlurNextPass ==
    /\ stage = "blur"
    /\ push.dir = 0
    /\ \A g \in DOMAIN inv : inv[g].pc = "done"
    /\ push' = [dir |-> 1]
    /\ inv' = [g \in DOMAIN inv |-> BlurLocals]
    /\ UNCHANGED << stage, camera, normal_image, blur_image, blur_image0, blur_deps,
                    vertexVars, ssaoVars, compositeVars, fragmentVars, webVars >>

SpecBlurPasses == InitBlurPasses /\ [][(\E g \in DOMAIN inv : BlurRun(g)) \/ BlurNextPass]_vars

\* ------------------------------------------------------------------------
\* Composite dispatch
\* ------------------------------------------------------------------------

InitComposite ==
    /\ stage = "composite"
    /\ camera \in { CameraIdentity(r) : r \in Resolutions }
    /\ ssao_image \in Patterns(SSAOValues, camera.resolution)
    /\ color_image \in Patterns(ColorValues, camera.resolution)
    /\ composite_image = [p \in Pixels(camera.resolution) |-> Stale]
    /\ normal_image = Unbound
    /\ inv = [g \in Grid |-> [pc |-> "start", stores |-> << >>]]
    /\ NoRaster /\ NoSSAO /\ NoBlur

\* Invocation g of the composite stage runs main.
CompositeInvocation(g) ==
    /\ stage = "composite"
    /\ inv[g].pc = "start"
    /\ MayStart
    /\ LET stores == CompositeMain(camera, ssao_image, color_image, g)
       IN  /\ inv' = [inv EXCEPT ![g] = [pc |-> "done", stores |-> stores]]
           /\ composite_image' = ApplyStores(composite_image, "composite_image", stores)
    /\ UNCHANGED << stage, camera, normal_image, ssao_image, color_image, vertexVars,
                    ssaoVars, blurVars, fragmentVars, webVars >>

NextComposite == \E g \in DOMAIN inv : CompositeInvocation(g)

SpecComposite == InitComposite /\ [][NextComposite]_vars

\* ------------------------------------------------------------------------
\* Web application: the jwt cookie and the server loads and actions
\* ------------------------------------------------------------------------

\* The most requests of one browser session.
MaxRequests == 4

\* The tokens the user service issues.
Tokens == {"jwt1", "jwt2"}

\* What a call of the user service API comes to: an HTTP status, or 0 when
\* the fetch is rejected and there is no status.
ApiOutcomes == {200, 401, 0}

\* event.cookies.get(name): the value (as a one-element sequence), or
\* undefined (the empty sequence).
CookiesGet(jar, name) ==
    IF \E c \in jar : c.name = name
    THEN << (CHOOSE c \in jar : c.name = name).value >>
    ELSE << >>

\* event.cookies.delete(name, {path})
\* A mutation of it: the cookie is left in place.
CookiesDeleteNothing(jar, name, path) == jar

CookiesDelete(jar, name, path) == { c \in jar : ~(c.name = name /\ c.path = path) }

\* event.cookies.set(name, value, {path})
CookiesSet(jar, name, value, path) ==
    CookiesDelete(jar, name, path) \cup { [name |-> name, value |-> value, path |-> path] }

\* throw redirect(302, location)
Redirect(handler, location) ==
    [handler |-> handler, status |-> 302, location |-> location, api |-> << >>]

\* throw error(status) after the API requests api: a status that is not an
\* HTTP error status makes error itself throw, an internal error.
Error(handler, status, api) ==
    [handler |-> handler, status |-> IF status \in 400..599 THEN status ELSE 500,
     location |-> "", api |-> api]

\* The handler returned: the page is rendered.
Rendered(handler, api) == [handler |-> handler, status |-> 200, location |-> "", api |-> api]

\* load of routes/dashboard/+layout.server.js; outcome is what its API
\* request comes to if it sends one.
DashboardLoad(jar, outcome) ==
    IF CookiesGet(jar, "jwt") = << >> THEN Redirect("dashboard", "/user/login")
    ELSE LET request == [url |-> "/user", method |-> "GET",
                         authorization |-> CookiesGet(jar, "jwt")[1]]
         IN  IF outcome # 200 THEN Error("dashboard", outcome, <<request>>)
             ELSE Rendered("dashboard", <<request>>)

\* load of routes/user/+layout.server.js
UserLoad(jar) ==
    IF CookiesGet(jar, "jwt") # << >> THEN Redirect("user", "/dashboard")
    ELSE Rendered("user", << >>)

InitWeb ==
    /\ stage = "web"
    /\ cookies \in { {} } \cup { { [name |-> "jwt", value |-> t, path |-> "/"] } : t \in Tokens }
    /\ responses = << >>
    /\ NoVertex /\ NoFragment
    /\ NoCompute /\ NoSSAO /\ NoBlur /\ NoComposite

\* The browser loads a page of the dashboard.
Dashboard ==
    /\ stage = "web" /\ Len(responses) < MaxRequests
    /\ \E outcome \in ApiOutcomes :
          responses' = Append(responses, DashboardLoad(cookies, outcome))
    /\ UNCHANGED << cookies, stage, camera, normal_image, inv, vertexVars, fragmentVars,
                    ssaoVars, blurVars, compositeVars >>

\* The browser loads a page of the user area.
User ==
    /\ stage = "web" /\ Len(responses) < MaxRequests
    /\ responses' = Append(responses, UserLoad(cookies))
    /\ UNCHANGED << cookies, stage, camera, normal_image, inv, vertexVars, fragmentVars,
                    ssaoVars, blurVars, compositeVars >>

\* The browser posts the logout form.
Logout ==
    /\ stage = "web" /\ Len(responses) < MaxRequests
    /\ cookies' = CookiesDelete(cookies, "jwt", "/")
    /\ responses' = Append(responses, Redirect("logout", "/"))
    /\ UNCHANGED << stage, camera, normal_image, inv, vertexVars, fragmentVars, ssaoVars,
                    blurVars, compositeVars >>

\* The browser posts a valid registration form: the action calls the user
\* service and keeps the token it answers with.
Register ==
    /\ stage = "web" /\ Len(responses) < MaxRequests
    /\ \E outcome \in ApiOutcomes : \E jwt \in Tokens :
          LET request == [url |-> "/user/register", method |-> "POST", authorization |-> ""]
          IN  IF outcome # 200
              THEN /\ responses' = Append(responses, Error("register", outcome, <<request>>))
                   /\ cookies' = cookies
              ELSE /\ responses' = Append(responses, Rendered("register", <<request>>))
                   /\ cookies' = CookiesSet(cookies, "jwt", jwt, "/")
    /\ UNCHANGED << stage, camera, normal_image, inv, vertexVars, fragmentVars, ssaoVars,
                    blurVars, compositeVars >>

SpecWeb == InitWeb /\ [][Dashboard \/ User \/ Logout \/ Register]_vars

\* ------------------------------------------------------------------------
\* The pipeline's stages, each from the inputs it may be given
\* ------------------------------------------------------------------------

Init == InitUnpack \/ InitFragment \/ InitSSAO \/ InitBlur \/ InitComposite \/ InitWeb

Next ==
    \/ Unpack
    \/ Vertex
    \/ Fragment
    \/ \E g \in DOMAIN inv : SSAOInvocation(g)
    \/ \E g \in DOMAIN inv : BlurReturn(g)
    \/ \E g \in DOMAIN inv : BlurLoad(g)
    \/ \E g \in DOMAIN inv : BlurStore(g)
    \/ \E g \in DOMAIN inv : CompositeInvocation(g)
    \/ Dashboard
    \/ User
    \/ Logout
    \/ Register

Spec == Init /\ [][Next]_vars

\* ------------------------------------------------------------------------
\* Properties of the vertex stage
\* ------------------------------------------------------------------------

\* The value of the width bits of word w from bit lo up, read bit by bit.
BitsValue(w, lo, width) ==
    LET acc[k \in 0..width] ==
            IF k = 0 THEN 0 ELSE acc[k - 1] + (IF w[lo + k - 1] = 1 THEN Pow2(k - 1) ELSE 0)
    IN  acc[width]

InUnit(x) == RLe(F(0), x) /\ RLe(x, F(1))

RGe(a, b) == RLe(b, a)

IsByte(x) == x[2] = 1 /\ x[1] \in 0..255

\* C9 as stated: re-encoding what unpack produced with the same bit layout
\* gives back the four words of the packed vertex, every bit of them.
C9_RoundTripAllBits ==
    (stage = "vertex" /\ unpacked # << >>) => pack(unpacked[1]) = vertex.data

\* C9, amended: re-encoding what unpack produced gives back every bit of the
\* four words except bits 24..31 of word 0, which unpack does not read and
\* which come back as 0.
C9_RoundTripDeclaredBits ==
    (stage = "vertex" /\ unpacked # << >>) =>
        LET again == pack(unpacked[1])
        IN  /\ \A k \in 2..4 : again[k] = vertex.data[k]
            /\ \A i \in 0..23 : again[1][i] = vertex.data[1][i]
            /\ \A i \in 24..31 : again[1][i] = 0

\* A vertex was unpacked whose word 0 has bits set above bit 23 and whose
\* other words have bits set in every field.
C9_Witness ==
    /\ stage = "vertex" /\ unpacked # << >>
    /\ BitsValue(vertex.data[1], 24, 8) # 0
    /\ BitsValue(vertex.data[3], 16, 8) # 0
    /\ BitsValue(vertex.data[3], 24, 8) # 0
    /\ BitsValue(vertex.data[2], 16, 16) # BitsValue(vertex.data[2], 0, 16)

\* C10: unpack yields integer position components in 0..255 read from bits
\* 16..23 (x), 8..15 (y) and 0..7 (z) of word 0 with w = 1, U and V equal to
\* the high and low 16-bit fields of word 1 over 65535, and tint components
\* equal to the bytes of word 3 over 255; uv and tint lie in [0,1].
C10_UnpackFields ==
    (stage = "vertex" /\ unpacked # << >>) =>
        LET t == unpacked[1]
            d == vertex.data
        IN  /\ t.position = << F(BitsValue(d[1], 16, 8)), F(BitsValue(d[1], 8, 8)),
                               F(BitsValue(d[1], 0, 8)), F(1) >>
            /\ \A k \in 1..3 : IsByte(t.position[k])
            /\ t.uv = << R(BitsValue(d[2], 16, 16), 65535), R(BitsValue(d[2], 0, 16), 65535) >>
            /\ \A k \in 1..2 : InUnit(t.uv[k])
            /\ t.tint = [k \in 1..4 |-> R(BitsValue(d[4], 32 - 8 * k, 8), 255)]
            /\ \A k \in 1..4 : InUnit(t.tint[k])

\* A vertex was unpacked whose position bytes all differ, with uv and tint
\* strictly inside (0,1).
C10_Witness ==
    /\ stage = "vertex" /\ unpacked # << >>
    /\ unpacked[1].position[1] # unpacked[1].position[2]
    /\ unpacked[1].position[2] # unpacked[1].position[3]
    /\ unpacked[1].position[1] # unpacked[1].position[3]
    /\ RLt(F(0), unpacked[1].uv[1]) /\ RLt(unpacked[1].uv[1], F(1))
    /\ RLt(F(0), unpacked[1].tint[4]) /\ RLt(unpacked[1].tint[4], F(1))

\* C12: the vertex stage outputs world position = (unpacked position.xyz +
\* indirect[gl_DrawID].position.xyz, 1), from the entry of its own draw, and
\* clip position = proj * view * that position; with a zero offset and an
\* identity camera the clip position is the unpacked position; uv, mapping
\* and tint are passed on as unpacked.
C12_VertexOutputs ==
    (stage = "vertex" /\ vertex_out # << >>) =>
        LET t == unpack(vertex.data)
            off == indirect[gl_DrawID + 1].position
            out == vertex_out[1]
        IN  /\ out.position = << RAdd(off[1], t.position[1]), RAdd(off[2], t.position[2]),
                                 RAdd(off[3], t.position[3]), F(1) >>
            /\ out.gl_Position = MatVec(camera.proj, MatVec(camera.view, out.position))
            /\ (Xyz(off) = << F(0), F(0), F(0) >> /\ camera.proj = Identity4
                    /\ camera.view = Identity4) => out.gl_Position = t.position
            /\ out.uv = t.uv /\ out.mapping = t.mapping /\ out.tint = t.tint

\* The vertex stage ended for the second draw, whose offset is not zero,
\* under a camera that is not the identity.
C12_Witness ==
    /\ stage = "vertex" /\ vertex_out # << >>
    /\ gl_DrawID = 1
    /\ Xyz(indirect[2].position) # Xyz(indirect[1].position)
    /\ camera.proj # Identity4
    /\ vertex_out[1].gl_Position # vertex_out[1].position

\* The unit normal along the axis c \div 2 (x, y, z), positive for an even c.
AxisNormal(c) ==
    [k \in 1..3 |-> IF k = (c \div 2) + 1 THEN F(IF c % 2 = 0 THEN 1 ELSE -1) ELSE F(0)]

\* C14: the face-direction code extracted from the top byte of word 2
\* decodes, for 0..5, to the axis unit normals +X, -X, +Y, -Y, +Z, -Z in
\* that order, and no two distinct codes in 0..5 decode to the same vector.
C14_FaceNormal ==
    (stage = "vertex" /\ unpacked # << >>) =>
        LET c == BitsValue(vertex.data[3], 24, 8)
        IN  /\ c \in 0..5 => decode_dir(unpacked[1].dir) = << AxisNormal(c) >>
            /\ \A a \in 0..5 : \A b \in 0..5 : a # b => decode_dir(a) # decode_dir(b)

\* A vertex was unpacked whose word 2 has the code of -Y in its top byte
\* and other bits set below it.
C14_Witness ==
    /\ stage = "vertex" /\ unpacked # << >>
    /\ BitsValue(vertex.data[3], 24, 8) = 3
    /\ BitsValue(vertex.data[3], 0, 24) # 0
    /\ decode_dir(unpacked[1].dir) = << <<F(0), F(-1), F(0)>> >>

\* ------------------------------------------------------------------------
\* Properties of the fragment stage
\* ------------------------------------------------------------------------

\* floor((o + x) * TEX_SIZE) for a tile coordinate o and a fraction x >= 0,
\* in integer arithmetic.
FloorTexel(o, x) == ((o * x[2] + x[1]) * TEX_SIZE) \div x[2]

\* C11: for mapping = k the tile origin is (k mod 16, k div 16) and the
\* fetched texel is floor((tile origin + uv) * TEX_SIZE) on layer 0; mapping
\* 17 has tile origin (1,1), and mapping 0 with uv in [0,1) fetches only
\* texels of tile (0,0).
C11_AtlasAddress ==
    (stage = "fragment" /\ fragment_out # << >>) =>
        LET k == fragment.mapping
            c == fragment_out[1].texel
        IN  /\ c = << FloorTexel(k % 16, fragment.uv[1]), FloorTexel(k \div 16, fragment.uv[2]), 0 >>
            /\ k = 17 => tex_pos_id(k) = << F(1), F(1) >>
            /\ (k = 17 /\ fragment.uv = << F(0), F(0) >>) => c = << TEX_SIZE, TEX_SIZE, 0 >>
            /\ (k = 0 /\ RLt(fragment.uv[1], F(1)) /\ RLt(fragment.uv[2], F(1))) =>
                  (c[1] \in 0..(TEX_SIZE - 1) /\ c[2] \in 0..(TEX_SIZE - 1))

\* A fragment of tile 17 with uv strictly inside (0,1) fetched its texel.
C11_Witness ==
    /\ stage = "fragment" /\ fragment_out # << >>
    /\ fragment.mapping = 17
    /\ RLt(F(0), fragment.uv[1]) /\ RLt(fragment.uv[1], F(1))
    /\ RLt(F(0), fragment.uv[2]) /\ RLt(fragment.uv[2], F(1))
    /\ fragment.uv[1] # fragment.uv[2]

\* C16: for every mapping k and every uv unpack can produce, n = 65535
\* included, the fetched texel lies inside the tile addressed by k on both
\* axes.
C16_TexelInTile ==
    (stage = "fragment" /\ fragment_out # << >>) =>
        LET k == fragment.mapping
            c == fragment_out[1].texel
        IN  /\ c[1] \in ((k % 16) * TEX_SIZE)..((k % 16) * TEX_SIZE + TEX_SIZE - 1)
            /\ c[2] \in ((k \div 16) * TEX_SIZE)..((k \div 16) * TEX_SIZE + TEX_SIZE - 1)

\* ------------------------------------------------------------------------
\* Properties of the SSAO stage
\* ------------------------------------------------------------------------

\* The invocations that ran main to its end inside the resolution.
Wrote == { g \in DOMAIN inv : inv[g].pc = "done" /\ ~AnyGE(g, camera.resolution) }

\* C3 as stated: an in-resolution pixel whose position validity flag is 0
\* gets the SSAO output value 1.0.
C3_NoGeometryIsOne ==
    stage = "ssao" =>
        \A g \in Wrote : position_image[g][4] = F(0) => ssao_output_image[g] = Splat4(F(1))

\* C3, amended: an in-resolution pixel whose position validity flag is 0
\* gets the SSAO output value 0.0, written without taking any kernel sample.
C3_NoGeometryIsZero ==
    stage = "ssao" =>
        \A g \in Wrote : position_image[g][4] = F(0) =>
            /\ ssao_output_image[g] = Splat4(F(0))
            /\ inv[g].samples = << >>

\* An invocation ran on an in-resolution pixel with validity flag 0.
C3_Witness ==
    /\ stage = "ssao"
    /\ \E g \in Wrote : position_image[g][4] = F(0) /\ ssao_output_image[g] # Stale

\* C4: the value the SSAO stage writes for an in-resolution pixel lies in
\* [0,1], and each of the 8 kernel samples of a pixel with geometry adds a
\* contribution in [0,1].
C4_OutputInUnit ==
    stage = "ssao" =>
        \A g \in Wrote :
            /\ \A k \in 1..4 : InUnit(ssao_output_image[g][k])
            /\ Len(inv[g].samples) \in {0, KernelSize}
            /\ \A i \in DOMAIN inv[g].samples : InUnit(inv[g].samples[i].add)

\* An invocation wrote a value strictly between 0 and 1 after a sample added
\* a contribution strictly between 0 and 1.
C4_Witness ==
    /\ stage = "ssao"
    /\ \E g \in Wrote :
        /\ RLt(F(0), ssao_output_image[g][1]) /\ RLt(ssao_output_image[g][1], F(1))
        /\ \E i \in DOMAIN inv[g].samples :
              RLt(F(0), inv[g].samples[i].add) /\ RLt(inv[g].samples[i].add, F(1))

\* dot(offset_normal, normal) of sample i of invocation g, whose projected
\* texel lies inside the resolution.
OccluderDot(g, i) ==
    Dot(ViewNormal(camera, normal_image, inv[g].samples[i].pos),
        ViewNormal(camera, normal_image, g))

Sampled(g) == { i \in DOMAIN inv[g].samples : inv[g].samples[i].skip # "outside" }

\* C5 as stated: a kernel sample whose occluder normal has dot product
\* >= 0.99 with the fragment's normal, 0.99 itself included, adds zero.
C5_GuardFromPoint99 ==
    stage = "ssao" =>
        \A g \in Wrote : \A i \in Sampled(g) :
            RGe(OccluderDot(g, i), R(99, 100)) => inv[g].samples[i].add = F(0)

\* C5, amended: a kernel sample whose occluder normal has dot product
\* strictly above 0.99 with the fragment's normal is skipped and adds zero,
\* whatever the occluder's depth; at exactly 0.99 it is not skipped.
C5_GuardAbovePoint99 ==
    stage = "ssao" =>
        \A g \in Wrote : \A i \in Sampled(g) :
            /\ RGt(OccluderDot(g, i), R(99, 100)) =>
                  inv[g].samples[i].skip = "same_surface" /\ inv[g].samples[i].add = F(0)
            /\ OccluderDot(g, i) = R(99, 100) => inv[g].samples[i].skip = "no"

\* A sample was skipped as same-surface whose occluder is another pixel at
\* another depth than the fragment.
C5_Witness ==
    /\ stage = "ssao"
    /\ \E g \in Wrote : \E i \in Sampled(g) :
        /\ RGt(OccluderDot(g, i), R(99, 100))
        /\ inv[g].samples[i].pos # g
        /\ position_image[inv[g].samples[i].pos][3] # position_image[g][3]

\* The invocations that ran the loop over the kernel: inside the resolution,
\* on a pixel whose validity flag is not 0.
Shaded == { g \in Wrote : position_image[g][4] # F(0) }

C17_InvalidOccluderAddsZero ==
    stage = "ssao" =>
        \A g \in Shaded : \A i \in Sampled(g) :
            position_image[inv[g].samples[i].pos][4] = F(0) => inv[g].samples[i].add = F(0)

\* ------------------------------------------------------------------------
\* Properties of the composite stage
\* ------------------------------------------------------------------------

\* C8: for every in-resolution pixel the composite stage writes
\* (s*r, s*g, s*b, 1), s the red channel of the SSAO image and (r,g,b) the
\* colour image there: s = 1 gives the colour, s = 0 black, and alpha is 1.
C8_CompositeValue ==
    stage = "composite" =>
        \A g \in Wrote :
            LET s == ssao_image[g][1]
                c == color_image[g]
                out == composite_image[g]
            IN  /\ out = << RMul(s, c[1]), RMul(s, c[2]), RMul(s, c[3]), F(1) >>
                /\ s = F(1) => Xyz(out) = Xyz(c)
                /\ s = F(0) => Xyz(out) = << F(0), F(0), F(0) >>
                /\ out[4] = F(1)

\* An invocation composited a pixel whose SSAO red channel is 1/2 and differs
\* from its other channels, with a colour whose alpha is not 1.
C8_Witness ==
    /\ stage = "composite"
    /\ \E g \in Wrote :
        /\ ssao_image[g][1] = R(1, 2)
        /\ ssao_image[g][2] # ssao_image[g][1]
        /\ color_image[g][4] # F(1)
        /\ composite_image[g] # Stale

\* ------------------------------------------------------------------------
\* Properties of the blur stage
\* ------------------------------------------------------------------------

\* The offsets of the window whose taps invocation g accepts: inside the
\* resolution, and the normal there has dot >= 0.9 with the centre normal.
AcceptedOffsets(g) ==
    { i \in (-dist)..dist :
        LET off_i == BlurTap(g, i, push.dir)
        IN  /\ off_i \in Pixels(camera.resolution)
            /\ RGe(Dot(normal_image[g], normal_image[off_i]), R(9, 10)) }

\* The sum of image's texels at the taps of g with offsets in offsets.
TapSum(image, g, offsets) ==
    LET acc[i \in (-dist - 1)..dist] ==
            IF i = -dist - 1 THEN Splat4(F(0))
            ELSE IF i \in offsets THEN VAdd(acc[i - 1], image[BlurTap(g, i, push.dir)])
            ELSE acc[i - 1]
    IN  acc[dist]

\* The average of the accepted taps of g over the contents image.
TapMean(image, g) ==
    LET offsets == AcceptedOffsets(g)
    IN  [k \in 1..4 |-> RDiv(TapSum(image, g, offsets)[k], F(Cardinality(offsets)))]

\* C1: in one blur dispatch the value stored for every in-resolution pixel
\* equals the average computed from the contents blur_image had before the
\* dispatch started, whatever the interleaving of the invocations.
C1_BlurOfSnapshot ==
    stage = "blur" =>
        \A g \in Wrote : inv[g].stores[1].value = TapMean(blur_image0, g)

\* C2: when a blur invocation divides, its accepted-sample count is at least
\* 1, and a pixel all of whose other taps are rejected by the normal test
\* outputs exactly its own previous value.
C2_BlurCountPositive ==
    stage = "blur" =>
        \A g \in Wrote :
            /\ inv[g].samples >= 1
            /\ AcceptedOffsets(g) \subseteq {0} => blur_image[g] = blur_image0[g]

\* The offsets of the window whose taps lie inside the resolution.
InBoundsOffsets(g) ==
    { i \in (-dist)..dist : BlurTap(g, i, push.dir) \in Pixels(camera.resolution) }

\* The in-bounds taps of g all hold the centre's normal, which passes the
\* normal test against itself.
IdenticalNormals(g) ==
    /\ \A i \in InBoundsOffsets(g) : normal_image[BlurTap(g, i, push.dir)] = normal_image[g]
    /\ RGe(Dot(normal_image[g], normal_image[g]), R(9, 10))

\* The distances from g to the nearer and the farther end of the image along
\* the selected axis.
AxisEnds(g) ==
    IF push.dir = 0 THEN << g[1], camera.resolution[1] - 1 - g[1] >>
    ELSE << g[2], camera.resolution[2] - 1 - g[2] >>

BorderDistance(g) ==
    IF AxisEnds(g)[1] < AxisEnds(g)[2] THEN AxisEnds(g)[1] ELSE AxisEnds(g)[2]

FarDistance(g) ==
    IF AxisEnds(g)[1] < AxisEnds(g)[2] THEN AxisEnds(g)[2] ELSE AxisEnds(g)[1]

PassesEnded == push.dir = 1 /\ \A g \in DOMAIN inv : inv[g].pc = "done"

\* The 9 x 9 window centred on p.
Window(p) == { q \in Pixels(camera.resolution) :
                 q[1] - p[1] \in (-dist)..dist /\ q[2] - p[2] \in (-dist)..dist }

\* C13: with direction flag 0 all taps of a pixel lie in its own row, x
\* varying by -4..+4, and with flag 1 in its own column; so after a flag-0
\* pass followed by a flag-1 pass a pixel's value depends only on pre-blur
\* values inside the 9 x 9 window centred on it.
C13_TapsAndWindow ==
    stage = "blur" =>
        /\ \A g \in DOMAIN inv : \A k \in DOMAIN inv[g].loads :
              LET q == inv[g].loads[k].pos
              IN  IF push.dir = 0
                  THEN q[2] = g[2] /\ q[1] - g[1] \in (-dist)..dist
                  ELSE q[1] = g[1] /\ q[2] - g[2] \in (-dist)..dist
        /\ PassesEnded => \A p \in Pixels(camera.resolution) : blur_deps[p] \subseteq Window(p)

\* ------------------------------------------------------------------------
\* Properties of every compute stage
\* ------------------------------------------------------------------------

ComputeStages == {"ssao", "blur", "composite"}

\* The image a stage writes, by the name of its binding.
OutputName ==
    CASE stage = "ssao" -> "ssao_output_image"
      [] stage = "blur" -> "blur_image"
      [] stage = "composite" -> "composite_image"

OutputImage ==
    CASE stage = "ssao" -> ssao_output_image
      [] stage = "blur" -> blur_image
      [] stage = "composite" -> composite_image

\* The images a stage has bound and does not write.
InputImages ==
    CASE stage = "ssao" -> << noise_image, ssao_kernel_image, position_image, normal_image,
                              blur_image, ssao_image, color_image, composite_image >>
      [] stage = "blur" -> << noise_image, ssao_kernel_image, position_image, normal_image,
                              ssao_output_image, ssao_image, color_image, composite_image >>
      [] stage = "composite" -> << noise_image, ssao_kernel_image, position_image, normal_image,
                                   ssao_output_image, blur_image, ssao_image, color_image >>

\* The invocations that end in this step.
Ending == { g \in DOMAIN inv : inv[g].pc # "done" /\ inv'[g].pc = "done" }

\* What a step of a compute stage may change of the images.
WritesOwnPixelOnly ==
    /\ InputImages' = InputImages
    /\ DOMAIN OutputImage' = DOMAIN OutputImage
    /\ \A p \in DOMAIN OutputImage :
          OutputImage'[p] # OutputImage[p] =>
              \E g \in Ending : p = g /\ ~AnyGE(g, camera.resolution)
    /\ \A g \in Ending :
          IF AnyGE(g, camera.resolution)
          THEN inv'[g].stores = << >>
          ELSE /\ Len(inv'[g].stores) = 1
               /\ inv'[g].stores[1].image = OutputName
               /\ inv'[g].stores[1].pos = g
               /\ OutputImage'[g] = inv'[g].stores[1].value
    /\ \A g \in DOMAIN inv : g \notin Ending => inv'[g].stores = inv[g].stores

\* C7: in each compute stage an invocation whose coordinate is >= the
\* resolution in x or y performs no image write, and an in-resolution
\* invocation writes exactly one pixel, the one at its own coordinate, of the
\* stage's output image, every other pixel and image being left unchanged.
C7_WritesOwnPixelOnly == [][(stage \in ComputeStages) => WritesOwnPixelOnly]_vars

\* In a blur dispatch an invocation outside the resolution has ended, and one
\* inside it has ended having changed its pixel while another pixel of the
\* image kept its value.
C7_Witness ==
    /\ stage = "blur"
    /\ \E g \in DOMAIN inv : inv[g].pc = "done" /\ AnyGE(g, camera.resolution)
    /\ \E g \in Wrote :
        /\ blur_image[g] # blur_image0[g]
        /\ \E p \in DOMAIN blur_image : p # g /\ blur_image[p] = blur_image0[p]

\* ------------------------------------------------------------------------
\* Properties of the web application
\* ------------------------------------------------------------------------

\* The answer to the request of this step.
Answer == responses'[Len(responses')]

\* What the claim says of one request, from the cookies before and after it.
GatedByJwt ==
    (stage = "web" /\ Len(responses') = Len(responses) + 1) =>
        /\ (Answer.handler = "dashboard" /\ CookiesGet(cookies, "jwt") = << >>) =>
              Answer = [handler |-> "dashboard", status |-> 302,
                        location |-> "/user/login", api |-> << >>]
        /\ (Answer.handler = "user" /\ CookiesGet(cookies, "jwt") # << >>) =>
              Answer.status = 302 /\ Answer.location = "/dashboard"
        /\ Answer.handler = "logout" => CookiesGet(cookies', "jwt") = << >>
        /\ (Answer.handler = "dashboard" /\ responses # << >>
              /\ responses[Len(responses)].handler = "logout") =>
              Answer.status = 302 /\ Answer.location = "/user/login"

\* C18: after any sequence of page loads and logout actions the jwt cookie
\* alone gates the two areas: a dashboard load with no jwt cookie redirects
\* (302) to /user/login without sending an API request, a user-area load
\* with a jwt cookie redirects (302) to /dashboard, and right after a logout
\* the jwt cookie is absent, so the next dashboard load redirects to
\* /user/login.
C18_JwtGates == [][GatedByJwt]_vars

\* A session that started with a jwt cookie: a user-area load was redirected
\* to /dashboard, a dashboard load called the API, then the logout was
\* followed by a dashboard load redirected to /user/login.
C18_Witness ==
    /\ stage = "web" /\ Len(responses) = 4
    /\ responses[1].handler = "user" /\ responses[1].location = "/dashboard"
    /\ responses[2].handler = "dashboard" /\ responses[2].api # << >>
    /\ responses[3].handler = "logout"
    /\ responses[4] = Redirect("dashboard", "/user/login")
    /\ cookies = {}

====
